---- MODULE Spec2Model ----
(***************************************************************************)
(* zcash_proofs::load_parameters (src/zcash_proofs/src/lib.rs).            *)
(*                                                                         *)
(* One invocation is a sequential program; 'pc' is the statement about to  *)
(* run.  A step is one library call of the function body, except that the  *)
(* two loops that read a file (the codec's read_exact inside               *)
(* Parameters::read / VerifyingKey::read, and io::copy) take one step per  *)
(* call of HashReader::read, so that the bytes fed to the hasher, short    *)
(* reads, end-of-input and read errors are all visible.                    *)
(***************************************************************************)
EXTENDS Integers, Sequences, FiniteSets, TLC

\* ------------------------------------------------------------------ bounds
\* longest parameter file, in bytes
MaxLen == 2
\* most bytes one read call delivers
MaxChunk == 2
\* most reads failing with ErrorKind::Interrupted in one invocation
MaxInterrupts == 1

\* byte values of the model's files
Byte == {0, 1}

\* ------------------------------------------------------------------ values
None == [some |-> FALSE]
Some(v) == [some |-> TRUE, val |-> v]

F == {"spend", "output", "sprout"}
Mandatory == {"spend", "output"}

Content == UNION {[1 .. n -> Byte] : n \in 0 .. MaxLen}

\* what a path argument resolves to
NoPath == [kind |-> "none", bytes |-> <<>>]
MissingFile == [kind |-> "missing", bytes |-> <<>>]
FileOf(b) == [kind |-> "file", bytes |-> b]

Min(a, b) == IF a < b THEN a ELSE b

\* ------------------------------------------------------------------ hashing
\* The incremental hash state of a HashReader: one update per byte.  The
\* model's hash is injective on files of up to 7 bytes.
HashInit == 0

HashByte(h, b) == (h * 4 + b + 1) % 65536

RECURSIVE HashUpdate(_, _)
HashUpdate(h, bytes) ==
    IF bytes = <<>> THEN h
    ELSE HashUpdate(HashByte(h, Head(bytes)), Tail(bytes))

HexDigit == <<"0", "1", "2", "3", "4", "5", "6", "7",
              "8", "9", "a", "b", "c", "d", "e", "f">>

\* HashReader::into_hash: the digest as a fixed-length lower-case hex string
ToHex(h) ==
    HexDigit[((h \div 4096) % 16) + 1] \o HexDigit[((h \div 256) % 16) + 1]
        \o HexDigit[((h \div 16) % 16) + 1] \o HexDigit[(h % 16) + 1]

IntoHash(h) == ToHex(h)

\* b2sum of a whole file, computed from the last byte backwards
RECURSIVE Weigh(_)
Weigh(bytes) ==
    IF bytes = <<>> THEN 0
    ELSE (Weigh(SubSeq(bytes, 1, Len(bytes) - 1)) * 4
            + bytes[Len(bytes)] + 1) % 65536

B2Sum(bytes) == ToHex(Weigh(bytes))

\* ------------------------------------------------------------------ constants
\* the digest of the file <<0>>
SAPLING_SPEND_HASH == "0001"
\* the digest of the file <<1, 1>>
SAPLING_OUTPUT_HASH == "000a"
SPROUT_HASH == "_"

Expected(f) ==
    CASE f = "spend" -> SAPLING_SPEND_HASH
      [] f = "output" -> SAPLING_OUTPUT_HASH
      [] f = "sprout" -> SPROUT_HASH

\* ------------------------------------------------------------------ codec
\* The external codec reads a length byte n and then n more bytes, as
\* bellman reads each length-prefixed vector of a key.  CodecNeed is the
\* number of bytes the codec still asks for after it has consumed 'g'.
CodecNeed(g) == IF g = <<>> THEN 1 ELSE g[1] + 1 - Len(g)

\* VerifyingKey::read
VerifyingKeyOf(g) == [ic |-> Tail(g)]

\* Parameters::read: the proving key embeds its verifying key
ParametersOf(g) == [vk |-> VerifyingKeyOf(g), h |-> Len(g) - 1]

Decode(f, g) == IF f = "sprout" THEN VerifyingKeyOf(g) ELSE ParametersOf(g)

\* prepare_verifying_key: pure, deterministic precomputation
prepare_verifying_key(vk) == [neg_gamma_g2 |-> Len(vk.ic), ic |-> vk.ic]

\* ------------------------------------------------------------------ messages
\* the message table with the spend and output integrity messages exchanged
MessageSwapped(line) ==
    CASE line = 40 -> "couldn't load Sapling spend parameters file"
      [] line = 41 -> "couldn't load Sapling output parameters file"
      [] line = 43 -> "couldn't load Sprout groth16 parameters file"
      [] line = 53 -> "couldn't deserialize Sapling spend parameters file"
      [] line = 55 -> "couldn't deserialize Sapling spend parameters file"
      [] line = 62 -> "couldn't deserialize Sprout Groth16 verifying key"
      [] line = 71 -> "couldn't finish reading Sapling spend parameter file"
      [] line = 73 -> "couldn't finish reading Sapling output parameter file"
      [] line = 76 -> "couldn't finish reading Sprout groth16 parameter file"
      [] line = 80 -> "Sapling output parameter file is not correct, please clean your '~/.zcash-params/' and re-run 'fetch-params'."
      [] line = 84 -> "Sapling spend parameter file is not correct, please clean your '~/.zcash-params/' and re-run 'fetch-params'."
      [] line = 91 -> "Sprout groth16 parameter file is not correct, please clean your '~/.zcash-params/' and re-run 'fetch-params'."

\* The panic message of each failure site, by source line.  (The messages'
\* backquotes are written as apostrophes here.)
Message(line) ==
    CASE line = 40 -> "couldn't load Sapling spend parameters file"
      [] line = 41 -> "couldn't load Sapling output parameters file"
      [] line = 43 -> "couldn't load Sprout groth16 parameters file"
      [] line = 53 -> "couldn't deserialize Sapling spend parameters file"
      [] line = 55 -> "couldn't deserialize Sapling spend parameters file"
      [] line = 62 -> "couldn't deserialize Sprout Groth16 verifying key"
      [] line = 71 -> "couldn't finish reading Sapling spend parameter file"
      [] line = 73 -> "couldn't finish reading Sapling output parameter file"
      [] line = 76 -> "couldn't finish reading Sprout groth16 parameter file"
      [] line = 80 -> "Sapling spend parameter file is not correct, please clean your '~/.zcash-params/' and re-run 'fetch-params'."
      [] line = 84 -> "Sapling output parameter file is not correct, please clean your '~/.zcash-params/' and re-run 'fetch-params'."
      [] line = 91 -> "Sprout groth16 parameter file is not correct, please clean your '~/.zcash-params/' and re-run 'fetch-params'."

\* ------------------------------------------------------------------ state
VARIABLES
    pc,          \* the statement about to run
    path,        \* what spend_path, output_path, sprout_path resolve to
    handle,      \* per file: "none", "open" or "closed"
    pos,         \* per file: bytes delivered so far
    hasher,      \* per file: the HashReader's hash state, None before Wrap
    fed,         \* per file: the bytes passed to the hasher, in order
    got,         \* per file: the bytes the codec has consumed
    params,      \* spend_params, output_params, sprout_vk
    eof,         \* per file: io::copy has returned Ok
    digest,      \* per file: the string into_hash returned, "" before
    pvk,         \* spend_vk, output_vk, sprout_vk after preparation
    result,      \* the tuple returned to the caller
    diag,        \* the panic message, "" when none
    at,          \* the source line that panicked, 0 when none
    last,        \* the outcome of the latest read call
    interrupts   \* interrupted reads so far in this invocation

vars == <<pc, path, handle, pos, hasher, fed, got, params, eof, digest, pvk,
          result, diag, at, last, interrupts>>

Supplied(f) == path[f].kind # "none"

Bytes(f) == path[f].bytes

Remaining(f) == Len(Bytes(f)) - pos[f]

Terminal == pc \in {"done", "fatal"}

\* ------------------------------------------------------------------ steps
Paths ==
    {p \in [F -> {NoPath, MissingFile} \cup {FileOf(b) : b \in Content}] :
        /\ p["spend"] # NoPath
        /\ p["output"] # NoPath}

\* no invocation is running and nothing of an earlier one exists
Idle ==
    /\ pc = "idle"
    /\ path = [f \in F |-> NoPath]
    /\ handle = [f \in F |-> "none"]
    /\ pos = [f \in F |-> 0]
    /\ hasher = [f \in F |-> None]
    /\ fed = [f \in F |-> <<>>]
    /\ got = [f \in F |-> <<>>]
    /\ params = [f \in F |-> None]
    /\ eof = [f \in F |-> FALSE]
    /\ digest = [f \in F |-> ""]
    /\ pvk = [f \in F |-> None]
    /\ result = None
    /\ diag = ""
    /\ at = 0
    /\ last = "none"
    /\ interrupts = 0

Init == Idle

\* load_parameters(spend_path, output_path, sprout_path) is called
Call ==
    /\ pc = "idle"
    /\ \E p \in Paths : path' = p
    /\ pc' = "open_spend"
    /\ UNCHANGED <<handle, pos, hasher, fed, got, params, eof, digest, pvk,
                   result, diag, at, last, interrupts>>

\* The invocation is over: its locals are gone and the caller has taken the
\* tuple or the panic.  The function keeps nothing (it has no static).
Exit ==
    /\ pc \in {"done", "fatal"}
    /\ pc' = "idle"
    /\ path' = [f \in F |-> NoPath]
    /\ handle' = [f \in F |-> "none"]
    /\ pos' = [f \in F |-> 0]
    /\ hasher' = [f \in F |-> None]
    /\ fed' = [f \in F |-> <<>>]
    /\ got' = [f \in F |-> <<>>]
    /\ params' = [f \in F |-> None]
    /\ eof' = [f \in F |-> FALSE]
    /\ digest' = [f \in F |-> ""]
    /\ pvk' = [f \in F |-> None]
    /\ result' = None
    /\ diag' = ""
    /\ at' = 0
    /\ last' = "none"
    /\ interrupts' = 0

\* a panic that leaves the files open
PanicLeak(line) ==
    /\ pc' = "fatal"
    /\ diag' = Message(line)
    /\ at' = line
    /\ UNCHANGED handle

\* expect / panic! at a source line: the invocation ends with that line's message;
\* unwinding drops the readers, which closes every file still open
Panic(line) ==
    /\ pc' = "fatal"
    /\ diag' = Message(line)
    /\ at' = line
    /\ handle' = [f \in F |-> IF handle[f] = "open" THEN "closed" ELSE handle[f]]

\* File::open(path)
Open(f, next, line) ==
    /\ IF path[f].kind = "file"
       THEN /\ handle' = [handle EXCEPT ![f] = "open"]
            /\ pc' = next
            /\ UNCHANGED <<diag, at>>
       ELSE Panic(line)
    /\ last' = "none"
    /\ UNCHANGED <<path, pos, hasher, fed, got, params, eof, digest, pvk,
                   result, interrupts>>

OpenSpend ==
    /\ pc = "open_spend"
    /\ Open("spend", "open_output", 40)

OpenOutput ==
    /\ pc = "open_output"
    /\ Open("output", "open_sprout", 41)

OpenSprout ==
    /\ pc = "open_sprout"
    /\ IF Supplied("sprout")
       THEN Open("sprout", "wrap", 43)
       ELSE /\ pc' = "wrap"
            /\ last' = "none"
            /\ UNCHANGED <<path, handle, pos, hasher, fed, got, params, eof,
                           digest, pvk, result, diag, at, interrupts>>

\* HashReader::new(BufReader::with_capacity(..)) for each open file
Wrap ==
    /\ pc = "wrap"
    /\ hasher' = [f \in F |-> IF handle[f] = "open" THEN Some(HashInit)
                               ELSE None]
    /\ pc' = "read_spend"
    /\ last' = "none"
    /\ UNCHANGED <<path, handle, pos, fed, got, params, eof, digest, pvk,
                   result, diag, at, interrupts>>

\* ------------------------------------------------------------------ reading
\* What one read call for at most 'want' bytes of file f can return: some
\* bytes, end-of-input once the file is exhausted, an interrupted read, or
\* another I/O error.
ReadOutcomes(f, want) ==
    {[kind |-> "data", n |-> k] :
        k \in 1 .. Min(Min(want, Remaining(f)), MaxChunk)}
    \cup (IF Remaining(f) = 0 THEN {[kind |-> "eof", n |-> 0]} ELSE {})
    \cup (IF interrupts < MaxInterrupts
          THEN {[kind |-> "intr", n |-> 0]} ELSE {})
    \cup {[kind |-> "err", n |-> 0]}

Chunk(f, r) == SubSeq(Bytes(f), pos[f] + 1, pos[f] + r.n)

\* HashReader::read: forwards the read and feeds the bytes delivered, and
\* only those, to the hasher
HashReaderRead(f, r) ==
    /\ pos' = [pos EXCEPT ![f] = pos[f] + r.n]
    /\ hasher' = [hasher EXCEPT
                    ![f] = Some(HashUpdate(hasher[f].val, Chunk(f, r)))]
    /\ fed' = [fed EXCEPT ![f] = fed[f] \o Chunk(f, r)]
    /\ last' = r.kind
    /\ interrupts' = IF r.kind = "intr" THEN interrupts + 1 ELSE interrupts

\* a codec that takes a truncated prefix for an empty key
DeserializeLenient(f, next, line) ==
    \E r \in ReadOutcomes(f, CodecNeed(got[f])) :
        /\ HashReaderRead(f, r)
        /\ CASE r.kind = "data" ->
                  LET g == got[f] \o Chunk(f, r) IN
                  /\ got' = [got EXCEPT ![f] = g]
                  /\ IF CodecNeed(g) = 0
                     THEN /\ params' = [params EXCEPT ![f] = Some(Decode(f, g))]
                          /\ pc' = next
                     ELSE UNCHANGED <<params, pc>>
                  /\ UNCHANGED <<handle, diag, at>>
             [] r.kind = "intr" ->
                  UNCHANGED <<got, params, pc, handle, diag, at>>
             [] r.kind = "eof" ->
                  /\ params' = [params EXCEPT ![f] = Some(Decode(f, <<0>>))]
                  /\ pc' = next
                  /\ UNCHANGED <<got, handle, diag, at>>
             [] r.kind = "err" ->
                  /\ Panic(line)
                  /\ UNCHANGED <<got, params>>
        /\ UNCHANGED <<path, eof, digest, pvk, result>>

\* Parameters::read(&mut fs, false) / VerifyingKey::read(&mut fs), one read
\* call of the codec's read_exact per step.  read_exact retries an
\* interrupted read and fails on end-of-input and on any other error.
Deserialize(f, next, line) ==
    \E r \in ReadOutcomes(f, CodecNeed(got[f])) :
        /\ HashReaderRead(f, r)
        /\ CASE r.kind = "data" ->
                  LET g == got[f] \o Chunk(f, r) IN
                  /\ got' = [got EXCEPT ![f] = g]
                  /\ IF CodecNeed(g) = 0
                     THEN /\ params' = [params EXCEPT ![f] = Some(Decode(f, g))]
                          /\ pc' = next
                     ELSE UNCHANGED <<params, pc>>
                  /\ UNCHANGED <<handle, diag, at>>
             [] r.kind = "intr" ->
                  UNCHANGED <<got, params, pc, handle, diag, at>>
             [] r.kind \in {"eof", "err"} ->
                  /\ Panic(line)
                  /\ UNCHANGED <<got, params>>
        /\ UNCHANGED <<path, eof, digest, pvk, result>>

DeserializeSpend ==
    /\ pc = "read_spend"
    /\ Deserialize("spend", "read_output", 53)

DeserializeOutput ==
    /\ pc = "read_output"
    /\ Deserialize("output", "read_sprout", 55)

DeserializeSprout ==
    /\ pc = "read_sprout"
    /\ IF Supplied("sprout")
       THEN Deserialize("sprout", "copy_spend", 62)
       ELSE /\ pc' = "copy_spend"
            /\ last' = "none"
            /\ UNCHANGED <<path, handle, pos, hasher, fed, got, params, eof,
                           digest, pvk, result, diag, at, interrupts>>

\* a Drain that reads nothing
DrainSkipped(f, next, line) ==
    /\ eof' = [eof EXCEPT ![f] = TRUE]
    /\ pc' = next
    /\ last' = "none"
    /\ UNCHANGED <<path, handle, pos, hasher, fed, got, params, digest, pvk,
                   result, diag, at, interrupts>>

\* a Drain that retries every failed read
DrainRetryAll(f, next, line) ==
    \E r \in ReadOutcomes(f, MaxChunk) :
        /\ HashReaderRead(f, r)
        /\ IF r.kind = "eof"
           THEN /\ eof' = [eof EXCEPT ![f] = TRUE]
                /\ pc' = next
           ELSE UNCHANGED <<eof, pc>>
        /\ UNCHANGED <<path, got, params, digest, pvk, result, handle, diag,
                       at>>

\* io::copy(&mut fs, &mut sink), one read call per step: Ok(0) ends the
\* copy, an interrupted read is retried, any other error is returned
Drain(f, next, line) ==
    \E r \in ReadOutcomes(f, MaxChunk) :
        /\ HashReaderRead(f, r)
        /\ CASE r.kind = "data" ->
                  UNCHANGED <<eof, pc, handle, diag, at>>
             [] r.kind = "eof" ->
                  /\ eof' = [eof EXCEPT ![f] = TRUE]
                  /\ pc' = next
                  /\ UNCHANGED <<handle, diag, at>>
             [] r.kind = "intr" ->
                  UNCHANGED <<eof, pc, handle, diag, at>>
             [] r.kind = "err" ->
                  /\ Panic(line)
                  /\ UNCHANGED eof
        /\ UNCHANGED <<path, got, params, digest, pvk, result>>

\* the spend file hashed as soon as it is drained
DrainSpendThenVerify ==
    /\ pc = "copy_spend"
    /\ Drain("spend", "hash_spend", 71)

DrainSpend ==
    /\ pc = "copy_spend"
    /\ Drain("spend", "copy_output", 71)

DrainOutput ==
    /\ pc = "copy_output"
    /\ Drain("output", "copy_sprout", 73)

DrainSprout ==
    /\ pc = "copy_sprout"
    /\ IF Supplied("sprout")
       THEN Drain("sprout", "hash_spend", 76)
       ELSE /\ pc' = "hash_spend"
            /\ last' = "none"
            /\ UNCHANGED <<path, handle, pos, hasher, fed, got, params, eof,
                           digest, pvk, result, diag, at, interrupts>>

\* ------------------------------------------------------------------ verify
\* a Verify that compares nothing
VerifyUnchecked(f, next, line) ==
    /\ digest' = [digest EXCEPT ![f] = IntoHash(hasher[f].val)]
    /\ hasher' = [hasher EXCEPT ![f] = None]
    /\ pc' = next
    /\ handle' = [handle EXCEPT ![f] = "closed"]
    /\ last' = "none"
    /\ UNCHANGED <<path, pos, fed, got, params, eof, pvk, result, interrupts,
                   diag, at>>

\* if fs.into_hash() != EXPECTED { panic!(..) }: into_hash consumes the
\* reader, which closes the file
Verify(f, next, line) ==
    LET d == IntoHash(hasher[f].val) IN
    /\ digest' = [digest EXCEPT ![f] = d]
    /\ hasher' = [hasher EXCEPT ![f] = None]
    /\ IF d # Expected(f)
       THEN Panic(line)
       ELSE /\ pc' = next
            /\ handle' = [handle EXCEPT ![f] = "closed"]
            /\ UNCHANGED <<diag, at>>
    /\ last' = "none"
    /\ UNCHANGED <<path, pos, fed, got, params, eof, pvk, result, interrupts>>

VerifySpend ==
    /\ pc = "hash_spend"
    /\ Verify("spend", "hash_output", 80)

VerifyOutput ==
    /\ pc = "hash_output"
    /\ Verify("output", "hash_sprout", 84)

VerifySprout ==
    /\ pc = "hash_sprout"
    /\ IF Supplied("sprout")
       THEN Verify("sprout", "prepare", 91)
       ELSE /\ pc' = "prepare"
            /\ last' = "none"
            /\ UNCHANGED <<path, handle, pos, hasher, fed, got, params, eof,
                           digest, pvk, result, diag, at, interrupts>>

\* ------------------------------------------------------------------ prepare
Prepare ==
    /\ pc = "prepare"
    /\ pvk' = [f \in F |->
                 CASE f \in Mandatory ->
                        Some(prepare_verifying_key(params[f].val.vk))
                   [] f = "sprout" ->
                        IF params[f].some
                        THEN Some(prepare_verifying_key(params[f].val))
                        ELSE None]
    /\ pc' = "return"
    /\ UNCHANGED <<path, handle, pos, hasher, fed, got, params, eof, digest,
                   result, diag, at, last, interrupts>>

\* a Return that hands out the spend key for the output circuit
ReturnSpendTwice ==
    /\ pc = "return"
    /\ result' = Some(<<params["spend"].val, pvk["spend"].val,
                        params["output"].val, pvk["spend"].val,
                        pvk["sprout"]>>)
    /\ pc' = "done"
    /\ UNCHANGED <<path, handle, pos, hasher, fed, got, params, eof, digest,
                   pvk, diag, at, last, interrupts>>

Return ==
    /\ pc = "return"
    /\ result' = Some(<<params["spend"].val, pvk["spend"].val,
                        params["output"].val, pvk["output"].val,
                        pvk["sprout"]>>)
    /\ pc' = "done"
    /\ UNCHANGED <<path, handle, pos, hasher, fed, got, params, eof, digest,
                   pvk, diag, at, last, interrupts>>

\* ------------------------------------------------------------------ spec
Step ==
    \/ OpenSpend
    \/ OpenOutput
    \/ OpenSprout
    \/ Wrap
    \/ DeserializeSpend
    \/ DeserializeOutput
    \/ DeserializeSprout
    \/ DrainSpend
    \/ DrainOutput
    \/ DrainSprout
    \/ VerifySpend
    \/ VerifyOutput
    \/ VerifySprout
    \/ Prepare
    \/ Return

Next == Call \/ Step \/ Exit

Spec == Init /\ [][Next]_vars

\* WF: a running invocation keeps executing its next statement
LiveSpec == Init /\ [][Next]_vars /\ WF_vars(Step)

\* ------------------------------------------------------------------ readings
\* the files whose digests are the compiled-in constants
SpendFile == <<0>>
OutputFile == <<1, 1>>

FileAt(line) ==
    CASE line \in {40, 53, 71, 80} -> "spend"
      [] line \in {41, 55, 73, 84} -> "output"
      [] line \in {43, 62, 76, 91} -> "sprout"

OpenLines == {40, 41, 43}
DeserLines == {53, 55, 62}
DrainLines == {71, 73, 76}
IntegrityLines == {80, 84, 91}
Lines == OpenLines \cup DeserLines \cup DrainLines \cup IntegrityLines

\* what a message says went wrong, read off its wording
KindOf(msg) ==
    CASE msg \in {"couldn't load Sapling spend parameters file",
                  "couldn't load Sapling output parameters file",
                  "couldn't load Sprout groth16 parameters file"} -> "open"
      [] msg \in {"couldn't deserialize Sapling spend parameters file",
                  "couldn't deserialize Sapling output parameters file",
                  "couldn't deserialize Sprout Groth16 verifying key"}
            -> "deserialize"
      [] msg \in {"couldn't finish reading Sapling spend parameter file",
                  "couldn't finish reading Sapling output parameter file",
                  "couldn't finish reading Sprout groth16 parameter file"}
            -> "read"
      [] msg \in {"Sapling spend parameter file is not correct, please clean your '~/.zcash-params/' and re-run 'fetch-params'.",
                  "Sapling output parameter file is not correct, please clean your '~/.zcash-params/' and re-run 'fetch-params'.",
                  "Sprout groth16 parameter file is not correct, please clean your '~/.zcash-params/' and re-run 'fetch-params'."}
            -> "integrity"
      [] OTHER -> "unknown"

\* the file a message names, read off its wording
Names(msg) ==
    CASE msg \in {"couldn't load Sapling spend parameters file",
                  "couldn't deserialize Sapling spend parameters file",
                  "couldn't finish reading Sapling spend parameter file",
                  "Sapling spend parameter file is not correct, please clean your '~/.zcash-params/' and re-run 'fetch-params'."}
            -> "spend"
      [] msg \in {"couldn't load Sapling output parameters file",
                  "couldn't deserialize Sapling output parameters file",
                  "couldn't finish reading Sapling output parameter file",
                  "Sapling output parameter file is not correct, please clean your '~/.zcash-params/' and re-run 'fetch-params'."}
            -> "output"
      [] msg \in {"couldn't load Sprout groth16 parameters file",
                  "couldn't deserialize Sprout Groth16 verifying key",
                  "couldn't finish reading Sprout groth16 parameter file",
                  "Sprout groth16 parameter file is not correct, please clean your '~/.zcash-params/' and re-run 'fetch-params'."}
            -> "sprout"
      [] OTHER -> "nothing"

\* the message tells the operator to clean the directory and fetch again
TellsToRefetch(msg) == KindOf(msg) = "integrity"

\* the codec can parse a structured prefix of b
Parseable(b) == \E n \in 1 .. Len(b) : CodecNeed(SubSeq(b, 1, n)) = 0

IsFile(f) == path[f].kind = "file"

\* the whole-file digest of f is not the compiled-in one
Mismatch(f) == Supplied(f) /\ B2Sum(Bytes(f)) # Expected(f)

AllOpened == \A f \in F : Supplied(f) => IsFile(f)
AllDeserialized == \A f \in F : Supplied(f) => params[f].some
AllDrained == \A f \in F : Supplied(f) => eof[f]

NoKeyMaterial == ~result.some /\ \A f \in F : ~pvk[f].some

\* ------------------------------------------------------------------ claims
\* C1: a tuple is returned only if every supplied file was opened,
\* deserialized and drained to end-of-input and the spend and output files'
\* whole-file digests equal the compiled-in constants; a prepared verifying
\* key exists only under the same conditions; after any failure (a file
\* that cannot be opened, a failed deserialization, a read error, a digest
\* that differs) the invocation is in the fatal state with no tuple and no
\* prepared verifying key.
C1_KeysOnlyFromVerifiedFiles ==
    /\ result.some => pc = "done"
    /\ pc = "done" => result.some
    /\ (pc \in {"return", "done"} \/ \E f \in F : pvk[f].some) =>
          /\ AllOpened /\ AllDeserialized /\ AllDrained
          /\ \A f \in F : Supplied(f) => pos[f] = Len(Bytes(f))
          /\ \A f \in Mandatory :
                /\ digest[f] = Expected(f)
                /\ B2Sum(Bytes(f)) = Expected(f)
    /\ pc = "fatal" => NoKeyMaterial
    /\ (last = "err" \/ \E f \in F : digest[f] \notin {"", Expected(f)}) =>
          pc = "fatal"
    /\ (pc \in {"done", "fatal"}
          /\ \E f \in F : Supplied(f) /\
                (~IsFile(f) \/ ~Parseable(Bytes(f))
                   \/ (f \in Mandatory /\ Mismatch(f)))) =>
          pc = "fatal"

\* the spend file verified, the output file's digest differs: the
\* invocation is fatal although both proving keys were deserialized
C1_Witness ==
    /\ pc = "fatal"
    /\ at = 84
    /\ digest["spend"] = SAPLING_SPEND_HASH
    /\ params["spend"].some /\ params["output"].some
    /\ NoKeyMaterial

\* C2: the bytes fed to a file's hasher are always the bytes delivered so
\* far, each once and in file order; when the digest is finalized they are
\* the whole file (the prefix the codec consumed followed by the trailing
\* region), and the digest equals b2sum of the whole file; two files with
\* the same structured prefix and different trailing regions get different
\* digests.
C2_DigestCoversWholeFile ==
    /\ \A f \in F : fed[f] = SubSeq(Bytes(f), 1, pos[f])
    /\ \A f \in F : digest[f] # "" =>
          /\ fed[f] = Bytes(f)
          /\ got[f] = SubSeq(Bytes(f), 1, Len(got[f]))
          /\ fed[f] = got[f] \o SubSeq(Bytes(f), Len(got[f]) + 1, Len(Bytes(f)))
          /\ digest[f] = B2Sum(Bytes(f))
    /\ (/\ digest["spend"] # "" /\ digest["output"] # ""
        /\ got["spend"] = got["output"]
        /\ Bytes("spend") # Bytes("output")) =>
          digest["spend"] # digest["output"]

\* both digests finalized for files with one prefix; the output file has a
\* trailing region that the spend file lacks
C2_Witness ==
    /\ digest["spend"] # "" /\ digest["output"] # ""
    /\ got["spend"] = got["output"]
    /\ Len(Bytes("output")) > Len(got["output"])
    /\ Bytes("spend") # Bytes("output")

\* C3: with a sprout path supplied, the sprout file opened, deserialized
\* and drained, and both mandatory files verified, the invocation does not
\* fail the sprout integrity check and returns a tuple whose fifth element
\* is present.
C3_SproutAcceptedUnconditionally ==
    (/\ pc \in {"done", "fatal"}
     /\ Supplied("sprout") /\ eof["sprout"]
     /\ digest["spend"] = SAPLING_SPEND_HASH
     /\ digest["output"] = SAPLING_OUTPUT_HASH) =>
        /\ pc = "done"
        /\ at # 91
        /\ result.some
        /\ result.val[5].some

\* C4: with no sprout path, correct spend and output files and no read
\* error, the invocation returns the spend proving key, the spend prepared
\* verifying key, the output proving key, the output prepared verifying key
\* and an absent fifth element; no third file is opened, read, hashed or
\* compared.
C4_NoSproutPath ==
    /\ (pc = "done" /\ ~Supplied("sprout")) =>
          /\ result.some
          /\ result.val[1] = ParametersOf(got["spend"])
          /\ result.val[2] = prepare_verifying_key(result.val[1].vk)
          /\ result.val[3] = ParametersOf(got["output"])
          /\ result.val[4] = prepare_verifying_key(result.val[3].vk)
          /\ result.val[5] = None
    /\ (/\ pc \in {"done", "fatal"} /\ ~Supplied("sprout")
        /\ \A f \in Mandatory : IsFile(f) /\ ~Mismatch(f)
        /\ last # "err") =>
          pc = "done"
    /\ (pc # "idle" /\ ~Supplied("sprout")) =>
          /\ handle["sprout"] = "none"
          /\ pos["sprout"] = 0
          /\ ~hasher["sprout"].some
          /\ fed["sprout"] = <<>>
          /\ got["sprout"] = <<>>
          /\ ~params["sprout"].some
          /\ ~eof["sprout"]
          /\ digest["sprout"] = ""
          /\ ~pvk["sprout"].some
          /\ at \notin {43, 62, 76, 91}

C4_Witness ==
    /\ pc = "done"
    /\ ~Supplied("sprout")
    /\ Bytes("spend") = SpendFile
    /\ Bytes("output") = OutputFile
    /\ result.some

\* C5: a failed deserialization is fatal with a deserialization diagnostic
\* that names the file being deserialized (so the three are pairwise
\* distinct) and that no open, drain or integrity failure issues.
C5_DeserializeDiagNamesFile ==
    (pc = "fatal" /\ at \in DeserLines) =>
        /\ KindOf(diag) = "deserialize"
        /\ Names(diag) = FileAt(at)
        /\ \A l \in Lines \ DeserLines : Message(l) # diag

\* the first supplied file, in the order spend, output, sprout, whose
\* whole-file digest is not the compiled-in one
FirstMismatch ==
    IF Mismatch("spend") THEN "spend"
    ELSE IF Mismatch("output") THEN "output" ELSE "sprout"

\* C6: when every supplied file opened, deserialized and drained and some
\* file's whole-file digest differs from its expected digest, the
\* invocation ends fatally at the integrity check of the first such file,
\* with the integrity diagnostic that names it and tells the operator to
\* clean the parameter directory and fetch again, and with no key material.
C6_IntegrityDiagNamesFirstMismatch ==
    (/\ pc \in {"done", "fatal"}
     /\ AllDrained
     /\ \E f \in F : Mismatch(f)) =>
        /\ pc = "fatal"
        /\ at \in IntegrityLines
        /\ FileAt(at) = FirstMismatch
        /\ diag = Message(at)
        /\ KindOf(diag) = "integrity"
        /\ Names(diag) = FirstMismatch
        /\ TellsToRefetch(diag)
        /\ digest[FirstMismatch] = B2Sum(Bytes(FirstMismatch))
        /\ NoKeyMaterial

\* the spend file is the correct file with one byte appended
C6_Witness ==
    /\ pc = "fatal"
    /\ at = 80
    /\ B2Sum(SpendFile) = SAPLING_SPEND_HASH
    /\ \E b \in Byte : Bytes("spend") = Append(SpendFile, b)
    /\ Names(diag) = "spend"
    /\ NoKeyMaterial

\* C7: when every supplied file opens and some file's prefix cannot be
\* parsed, the invocation ends with a deserialization diagnostic, whatever
\* the digests of the files are; a failed deserialization never yields an
\* integrity diagnostic and leaves every digest unfinalized; no digest is
\* finalized before every supplied file has been deserialized.
C7_CodecFailureBeforeHashing ==
    /\ (/\ pc \in {"done", "fatal"}
        /\ AllOpened
        /\ \E f \in F : Supplied(f) /\ ~Parseable(Bytes(f))) =>
          /\ pc = "fatal"
          /\ at \in DeserLines
          /\ KindOf(diag) = "deserialize"
    /\ (pc = "fatal" /\ at \in DeserLines) =>
          /\ KindOf(diag) = "deserialize"
          /\ \A f \in F : digest[f] = ""
    /\ (\E f \in F : digest[f] # "") => AllDeserialized

\* the output file is truncated in its prefix while the spend file, which
\* deserialized, has a digest that is not the expected one
C7_Witness ==
    /\ pc = "fatal"
    /\ at = 55
    /\ ~Parseable(Bytes("output"))
    /\ params["spend"].some
    /\ Mismatch("spend")

\* C8: in every terminal state no file handle is open, and a file is read
\* only while its handle is open.
C8_HandlesClosed ==
    /\ [](pc \in {"done", "fatal"} => \A f \in F : handle[f] # "open")
    /\ [][\A f \in F :
            (pos'[f] > pos[f] \/ Len(fed'[f]) > Len(fed[f])) =>
                (handle[f] = "open" /\ handle'[f] = "open")]_vars

\* a digest mismatch of the output file with the sprout file still open
\* when the panic unwinds
C8_Witness ==
    /\ pc = "fatal"
    /\ at = 84
    /\ Supplied("sprout")
    /\ \A f \in F : handle[f] = "closed"

\* the position of a statement in the function body
Order(p) ==
    CASE p = "idle" -> 0
      [] p = "open_spend" -> 1
      [] p = "open_output" -> 2
      [] p = "open_sprout" -> 3
      [] p = "wrap" -> 4
      [] p = "read_spend" -> 5
      [] p = "read_output" -> 6
      [] p = "read_sprout" -> 7
      [] p = "copy_spend" -> 8
      [] p = "copy_output" -> 9
      [] p = "copy_sprout" -> 10
      [] p = "hash_spend" -> 11
      [] p = "hash_output" -> 12
      [] p = "hash_sprout" -> 13
      [] p = "prepare" -> 14
      [] p = "return" -> 15
      [] p \in {"done", "fatal"} -> 16

ReadingPcs ==
    {"read_spend", "read_output", "read_sprout",
     "copy_spend", "copy_output", "copy_sprout"}

\* an invocation that has just been called holds nothing
NothingYet ==
    /\ \A f \in F :
          /\ handle[f] = "none" /\ pos[f] = 0 /\ ~hasher[f].some
          /\ fed[f] = <<>> /\ got[f] = <<>> /\ ~params[f].some
          /\ ~eof[f] /\ digest[f] = "" /\ ~pvk[f].some
    /\ ~result.some /\ diag = "" /\ at = 0 /\ interrupts = 0

StagesInOrder ==
    /\ (\E f \in F : pos[f] > 0 \/ hasher[f].some) =>
          /\ AllOpened
          /\ \A f \in F : Supplied(f) => handle[f] # "none"
    /\ (\E f \in F : eof[f] \/ pos[f] > Len(got[f])) => AllDeserialized
    /\ (\E f \in F : digest[f] # "") =>
          /\ AllDrained
          /\ \A f \in F : Supplied(f) => pos[f] = Len(Bytes(f))
    /\ digest["output"] # "" => digest["spend"] = SAPLING_SPEND_HASH
    /\ digest["sprout"] # "" =>
          /\ digest["spend"] = SAPLING_SPEND_HASH
          /\ digest["output"] = SAPLING_OUTPUT_HASH
    /\ (\E f \in F : pvk[f].some) =>
          \A f \in F : Supplied(f) => digest[f] = Expected(f)
    /\ pc = "open_spend" => NothingYet

\* C9: every supplied file is opened before any byte is read, every prefix
\* is deserialized before any file is drained, every file is drained to
\* end-of-input before any digest is finalized, the digests are compared in
\* the order spend, output, sprout and all comparisons pass before a
\* verifying key is prepared; statements run in program order and only a
\* reading statement is repeated; an invocation starts with nothing of an
\* earlier one.
C9_LinearPipeline ==
    /\ []StagesInOrder
    /\ [][\/ pc' = "idle"
          \/ Order(pc') > Order(pc)
          \/ (pc' = pc /\ pc \in ReadingPcs)]_vars

\* a normal return: the whole pipeline ran
C9_Witness ==
    /\ pc = "done"
    /\ \A f \in Mandatory : digest[f] = Expected(f) /\ pvk[f].some

\* f is being drained
Draining(f) ==
    /\ Supplied(f)
    /\ pc = (CASE f = "spend" -> "copy_spend"
               [] f = "output" -> "copy_output"
               [] f = "sprout" -> "copy_sprout")

\* C10 as stated: the drain loop of a file ends exactly when a read
\* reaches end-of-input or fails, and a failed read ends the invocation.
C10_NoFailedReadRetried ==
    [][\A f \in F : Draining(f) =>
          /\ (pc' # pc) <=> (last' \in {"eof", "intr", "err"})
          /\ last' \in {"intr", "err"} => pc' = "fatal"]_vars

\* C10 amended: every invocation reaches a terminal state; the drain loop
\* of a file ends exactly when a read reaches end-of-input or fails with an
\* error other than ErrorKind::Interrupted, which ends the invocation; an
\* interrupted read delivers nothing and is retried; no step other than a
\* read stays at its statement.
C10_TerminatesRetryingOnlyInterrupted ==
    /\ (pc = "open_spend") ~> (pc \in {"done", "fatal"})
    /\ [][\A f \in F : Draining(f) =>
            /\ (pc' # pc) <=> (last' \in {"eof", "err"})
            /\ last' = "err" => pc' = "fatal"
            /\ last' = "eof" =>
                  /\ pos[f] = Len(Bytes(f))
                  /\ eof'[f]
                  /\ Order(pc') = Order(pc) + 1
            /\ last' = "intr" =>
                  /\ interrupts' = interrupts + 1
                  /\ UNCHANGED <<pos, hasher, fed, eof, handle>>]_vars
    /\ [][pc' = pc => pc \in ReadingPcs]_vars

\* a drain read was interrupted and the copy went on to end-of-input
C10_Witness ==
    /\ pc = "copy_output"
    /\ interrupts > 0
    /\ last = "eof"
    /\ eof["spend"]

====
